---- MODULE Spec2Model ----
(***************************************************************************)
(* Model of sniff-scripts/convert_safety_comments.py.                      *)
(*                                                                         *)
(* A text is a sequence of one-character strings.  transform_content is    *)
(* modelled statement by statement (its two loops are stepped by pc), and  *)
(* process_repo calls it once per candidate file.                          *)
(***************************************************************************)
EXTENDS Naturals, Sequences, FiniteSets

VARIABLES
    text,       \* transform_content: the argument
    lines,      \* transform_content: text.splitlines()
    out,        \* transform_content: the output list
    i,          \* transform_content: outer cursor (0-based, as in the source)
    j,          \* transform_content: inner cursor (0-based)
    changed,    \* transform_content: the changed flag
    result,     \* transform_content: the returned text
    pc,         \* position inside transform_content
    pass,       \* how many times transform_content has been entered
    prev,       \* the text returned by the previous application
    dirName,    \* file system: the name of every directory
    disk0,      \* file system: every file's content when the walk starts
    disk,       \* file system: every file's content now
    dryRun,     \* process_repo: the dry_run argument
    verbose,    \* process_repo: the verbose argument
    stack,      \* os.walk: directories still to be yielded, next one first
    dirpath,    \* process_repo: the directory being listed
    filenames,  \* process_repo: files of dirpath the for loop has not taken yet
    fpath,      \* process_repo: the file being processed
    changedFiles, \* process_repo: changed_files
    printed,    \* standard output, one entry per print call
    readOk,     \* files whose read_text returned
    readFailed, \* files whose read_text raised
    written,    \* files write_text was called on
    wpc         \* position inside process_repo

tvars == <<text, lines, out, i, j, changed, result, pc, pass, prev>>

fsvars == <<dirName, disk0, disk, dryRun, verbose>>

wvars == <<stack, dirpath, filenames, fpath, changedFiles, printed,
           readOk, readFailed, written, wpc>>

vars == <<tvars, fsvars, wvars>>

-----------------------------------------------------------------------------
(* Bounds of the checked input space.                                      *)

MaxLines == 3

-----------------------------------------------------------------------------
(* Characters and patterns.                                                *)

\* The literal tag of SAFETY_START_RE.
TAG == <<"S", "A", "F", "E", "T", "Y", ":">>

\* Characters at which str.splitlines() breaks a line (those expressible as
\* TLA+ string escapes; "\r\n" is handled as a pair in SplitFrom).
LineBoundary == {"\n", "\r", "\f"}

\* Characters the regex class \s matches (those expressible as TLA+ string
\* escapes).
IsSpace(c) == c \in {" ", "\t", "\n", "\r", "\f"}

\* Python's s[a:] on a 1-based sequence: everything after the first a items.
SliceFrom(s, a) == SubSeq(s, a + 1, Len(s))

\* Number of leading characters of s, counted from 1-based position p, that
\* IsSpace accepts: the greedy \s* of both patterns.
RECURSIVE SpaceRun(_, _)
SpaceRun(s, p) ==
    IF p <= Len(s) /\ IsSpace(s[p]) THEN 1 + SpaceRun(s, p + 1) ELSE 0

\* The group (?P<indent>\s*) at the start of a line.
IndentOf(line) == SubSeq(line, 1, SpaceRun(line, 1))

\* "^(?P<indent>\s*)//(?!/|!)": a plain comment marker after the indent, not
\* followed by '/' or '!'.
PlainMarkerAt(line, n) ==
    /\ Len(line) >= n + 2
    /\ line[n + 1] = "/"
    /\ line[n + 2] = "/"
    /\ ~(Len(line) >= n + 3 /\ line[n + 3] \in {"/", "!"})

\* ".*$" from 1-based position p: '.' matches anything but "\n", and '$'
\* matches at the end or just before a final "\n".
DotStarEnd(line, p) ==
    \A k \in p..Len(line) : line[k] = "\n" => k = Len(line)

\* Case-insensitive variant of the tag comparison (re.IGNORECASE).
TagAtIgnoreCase(line, p) ==
    /\ Len(line) >= p + Len(TAG) - 1
    /\ \/ SubSeq(line, p, p + Len(TAG) - 1) = TAG
       \/ SubSeq(line, p, p + Len(TAG) - 1) = <<"s", "a", "f", "e", "t", "y", ":">>

\* The literal "SAFETY:" at 1-based position p.
TagAt(line, p) ==
    /\ Len(line) >= p + Len(TAG) - 1
    /\ SubSeq(line, p, p + Len(TAG) - 1) = TAG

\* SAFETY_START_RE.match(line) is not None.
IsSafetyStart(line) ==
    LET n == SpaceRun(line, 1)
        g == SpaceRun(line, n + 3)
    IN  /\ PlainMarkerAt(line, n)
        /\ TagAt(line, n + 3 + g)
        /\ DotStarEnd(line, n + 3 + g + Len(TAG))

\* A continuation pattern that forgets the (?!/|!) lookahead.
IsFollowingCommentNoLookahead(line) ==
    LET n == SpaceRun(line, 1)
    IN  /\ Len(line) >= n + 2
        /\ line[n + 1] = "/"
        /\ line[n + 2] = "/"

\* FOLLOWING_COMMENT_RE.match(line) is not None.
IsFollowingComment(line) ==
    LET n == SpaceRun(line, 1)
    IN  /\ PlainMarkerAt(line, n)
        /\ DotStarEnd(line, n + 3)

\* A conversion that slices one character too far.
ConvertLineOffByOne(indent, line) ==
    indent \o <<"/", "/", "/">> \o SliceFrom(line, Len(indent) + 3)

\* indent + "///" + line[len(indent) + 2:]
ConvertLine(indent, line) ==
    indent \o <<"/", "/", "/">> \o SliceFrom(line, Len(indent) + 2)

-----------------------------------------------------------------------------
(* str.splitlines, "\n".join and str.endswith.                             *)

\* splitlines(keepends=True): every line keeps its terminator.
RECURSIVE SplitKeepFrom(_, _, _)
SplitKeepFrom(s, start, k) ==
    IF k > Len(s)
    THEN IF start <= Len(s) THEN <<SubSeq(s, start, Len(s))>> ELSE <<>>
    ELSE IF s[k] \in LineBoundary
         THEN LET eol == IF s[k] = "\r" /\ k < Len(s) /\ s[k + 1] = "\n"
                         THEN k + 2 ELSE k + 1
              IN  <<SubSeq(s, start, eol - 1)>> \o SplitKeepFrom(s, eol, eol)
         ELSE SplitKeepFrom(s, start, k + 1)

SplitLinesKeepEnds(s) == SplitKeepFrom(s, 1, 1)

\* splitlines(): scan from k, the current line starting at start; a boundary
\* ends the line, "\r\n" counting as one boundary; a last line without a
\* boundary is kept only if it is not empty.
RECURSIVE SplitFrom(_, _, _)
SplitFrom(s, start, k) ==
    IF k > Len(s)
    THEN IF start <= Len(s) THEN <<SubSeq(s, start, Len(s))>> ELSE <<>>
    ELSE IF s[k] \in LineBoundary
         THEN LET eol == IF s[k] = "\r" /\ k < Len(s) /\ s[k + 1] = "\n"
                         THEN k + 2 ELSE k + 1
              IN  <<SubSeq(s, start, k - 1)>> \o SplitFrom(s, eol, eol)
         ELSE SplitFrom(s, start, k + 1)

SplitLines(s) == SplitFrom(s, 1, 1)

\* "\n".join(ls)
RECURSIVE JoinLines(_)
JoinLines(ls) ==
    IF Len(ls) = 0 THEN <<>>
    ELSE IF Len(ls) = 1 THEN ls[1]
    ELSE ls[1] \o <<"\n">> \o JoinLines(Tail(ls))

\* text.endswith("\n")
EndsWithNewline(s) == Len(s) > 0 /\ s[Len(s)] = "\n"

-----------------------------------------------------------------------------
(* The input space: texts of at most MaxLines lines.                       *)

LineChoices ==
    { <<"/", "/", " ">> \o TAG \o <<" ", "x">>,          \* // SAFETY: x
      <<"\t", "/", "/">> \o TAG,                         \* <tab>//SAFETY:
      <<"/", "/", " ", " ">> \o TAG,                     \* //  SAFETY:
      <<" ", " ", "/", "/", " ", "s", "a", "f", "e", "t", "y", ":">>,
      <<"/", "/", "/", " ">> \o TAG \o <<" ", "x">>,     \* /// SAFETY: x
      <<"/", "/", "!", " ">> \o TAG,                     \* //! SAFETY:
      <<>>,                                              \* blank line
      <<"f", ";", " ", "/", "/", " ">> \o TAG }          \* f; // SAFETY:

\* Terminator written between two lines, and after the last line.
Separators == { <<"\n">>, <<"\r", "\n">> }
Finals == { <<>>, <<"\n">>, <<"\r">>, <<"\f">> }

RECURSIVE BuildText(_, _, _, _)
BuildText(ls, k, sep, fin) ==
    IF k > Len(ls) THEN IF Len(ls) = 0 THEN fin ELSE <<>>
    ELSE ls[k] \o (IF k = Len(ls) THEN fin ELSE sep)
               \o BuildText(ls, k + 1, sep, fin)

Texts ==
    { BuildText(ls, 1, sep, fin) :
        ls \in UNION { [1..n -> LineChoices] : n \in 0..MaxLines },
        sep \in Separators, fin \in Finals }

-----------------------------------------------------------------------------
(* transform_content.                                                      *)

\* lines = text.splitlines(); out = []; i = 0; changed = False
Split ==
    /\ pc = "split"
    /\ lines' = SplitLines(text)
    /\ out' = <<>>
    /\ i' = 0
    /\ changed' = FALSE
    /\ pc' = "outer"
    /\ UNCHANGED <<text, j, result, pass, prev, fsvars, wvars>>

\* Outer loop, the line at the cursor is no trigger: copy it and advance.
CopyLine ==
    /\ pc = "outer"
    /\ i < Len(lines)
    /\ ~IsSafetyStart(lines[i + 1])
    /\ out' = Append(out, lines[i + 1])
    /\ i' = i + 1
    /\ UNCHANGED <<text, lines, j, changed, result, pc, pass, prev, fsvars, wvars>>

\* Outer loop, the line at the cursor is a trigger: convert it, j = i + 1.
StartBlock ==
    /\ pc = "outer"
    /\ i < Len(lines)
    /\ IsSafetyStart(lines[i + 1])
    /\ out' = Append(out, ConvertLine(IndentOf(lines[i + 1]), lines[i + 1]))
    /\ j' = i + 1
    /\ pc' = "inner"
    /\ UNCHANGED <<text, lines, i, changed, result, pass, prev, fsvars, wvars>>

\* Inner loop, the line at j is a plain comment: convert it and advance j.
SweepLine ==
    /\ pc = "inner"
    /\ j < Len(lines)
    /\ IsFollowingComment(lines[j + 1])
    /\ out' = Append(out, ConvertLine(IndentOf(lines[j + 1]), lines[j + 1]))
    /\ j' = j + 1
    /\ UNCHANGED <<text, lines, i, changed, result, pc, pass, prev, fsvars, wvars>>

\* An inner loop that resumes the outer loop one line past the stopping line.
EndBlockSkipsStopLine ==
    /\ pc = "inner"
    /\ IF j < Len(lines) THEN ~IsFollowingComment(lines[j + 1]) ELSE TRUE
    /\ changed' = TRUE
    /\ i' = j + 1
    /\ pc' = "outer"
    /\ UNCHANGED <<text, lines, out, j, result, pass, prev, fsvars, wvars>>

\* Inner loop ends (end of the lines, or break): changed = True; i = j.
EndBlock ==
    /\ pc = "inner"
    /\ IF j < Len(lines) THEN ~IsFollowingComment(lines[j + 1]) ELSE TRUE
    /\ changed' = TRUE
    /\ i' = j
    /\ pc' = "outer"
    /\ UNCHANGED <<text, lines, out, j, result, pass, prev, fsvars, wvars>>

\* Outer loop ends: join, restore the trailing newline, return.
Finish ==
    /\ pc = "outer"
    /\ i >= Len(lines)
    /\ result' = JoinLines(out) \o (IF EndsWithNewline(text) THEN <<"\n">> ELSE <<>>)
    /\ pc' = "done"
    /\ UNCHANGED <<text, lines, out, i, j, changed, pass, prev, fsvars, wvars>>

\* The returned text is handed to transform_content again.
Reapply ==
    /\ pc = "done"
    /\ pass = 1
    /\ prev' = result
    /\ text' = result
    /\ pass' = 2
    /\ pc' = "split"
    /\ UNCHANGED <<lines, out, i, j, changed, result, fsvars, wvars>>

-----------------------------------------------------------------------------
(* The file system process_repo walks: a fixed shape, with the directory   *)
(* names and the file contents chosen by Init.                             *)

Root == "d0"
Dirs == {"d0", "d1", "d2", "d3"}

\* The sub-directories os.walk lists for a directory, in listing order.
Children(d) ==
    IF d = "d0" THEN <<"d1", "d2">>
    ELSE IF d = "d1" THEN <<"d3">>
    ELSE <<>>

Files == {"f0", "f1", "f2", "f3", "f4"}

\* The directory holding a file.
DirOf(f) ==
    IF f = "f0" THEN "d0"
    ELSE IF f \in {"f1", "f2"} THEN "d1"
    ELSE IF f = "f3" THEN "d3"
    ELSE "d2"

FileName(f) ==
    IF f = "f0" THEN <<"m", ".", "r", "s">>
    ELSE IF f = "f1" THEN <<"l", ".", "r", "s">>
    ELSE IF f = "f2" THEN <<"l", ".", "r", "s", ".", "b">>
    ELSE IF f = "f3" THEN <<"u", ".", "r", "s">>
    ELSE <<"g", ".", "r", "s">>

FilesIn(d) == { f \in Files : DirOf(f) = d }

RootNames == {"repo", "target"}
SubNames == [d1 : {"src", ".git"}, d2 : {"tests", "target"},
             d3 : {"util", "node_modules"}]

\* File contents as stored: a CRLF file with a block, a file with a block and
\* no final newline, and a file that holds only a doc comment.
CrlfBlock == <<"/", "/", " ">> \o TAG \o <<"\r", "\n", "/", "/", "x", "\r", "\n">>
BareBlock == <<"/", "/">> \o TAG
DocOnly == <<"/", "/", "/", " ">> \o TAG \o <<"\n">>

Contents ==
    { [f \in Files |-> IF f = "f0" THEN a ELSE IF f = "f1" THEN b ELSE CrlfBlock] :
        a \in {BareBlock, DocOnly}, b \in {CrlfBlock, DocOnly} }

-----------------------------------------------------------------------------
(* process_repo.                                                           *)

SkipNames == {".git", "target", ".cargo", ".hg", ".svn", ".idea", ".vscode",
              "node_modules"}

\* A pruning test that skips nothing.
ShouldSkipNothing(d) == FALSE

\* should_skip_dir(Path(dirpath) / d): the last component is d's name.
ShouldSkipDir(d) == dirName[d] \in SkipNames

\* The test '".rs" in fname' instead of fname.endswith(".rs").
ContainsRs(name) ==
    \E k \in 1..Len(name) : k + 2 <= Len(name) /\ SubSeq(name, k, k + 2) = <<".", "r", "s">>

\* fname.endswith(".rs")
EndsWithRs(name) ==
    /\ Len(name) >= 3
    /\ SubSeq(name, Len(name) - 2, Len(name)) = <<".", "r", "s">>

\* Text-mode reading with newline=None: "\r\n" and "\r" arrive as "\n".
RECURSIVE UniversalNewlines(_)
UniversalNewlines(s) ==
    IF Len(s) = 0 THEN <<>>
    ELSE IF s[1] = "\r"
         THEN IF Len(s) >= 2 /\ s[2] = "\n"
              THEN <<"\n">> \o UniversalNewlines(SubSeq(s, 3, Len(s)))
              ELSE <<"\n">> \o UniversalNewlines(Tail(s))
         ELSE <<s[1]>> \o UniversalNewlines(Tail(s))

\* fpath.read_text(encoding="utf-8"), when it returns.
ReadText(f) == UniversalNewlines(disk[f])

\* os.linesep of the platform the script runs on.
LineSep == <<"\n">>

\* Text-mode writing with newline=None: every "\n" leaves as os.linesep.
RECURSIVE WriteText(_)
WriteText(s) ==
    IF Len(s) = 0 THEN <<>>
    ELSE (IF s[1] = "\n" THEN LineSep ELSE <<s[1]>>) \o WriteText(Tail(s))

RECURSIVE SelectKept(_)
SelectKept(ds) ==
    IF Len(ds) = 0 THEN <<>>
    ELSE (IF ShouldSkipDir(ds[1]) THEN <<>> ELSE <<ds[1]>>) \o SelectKept(Tail(ds))

\* os.walk yields the next directory; the body prunes dirnames in place, and
\* os.walk later descends into what is left, before the directory's siblings.
EnterDir ==
    /\ wpc = "walk"
    /\ stack # <<>>
    /\ dirpath' = Head(stack)
    /\ stack' = SelectKept(Children(Head(stack))) \o Tail(stack)
    /\ filenames' = FilesIn(Head(stack))
    /\ wpc' = "files"
    /\ UNCHANGED <<tvars, fsvars, fpath, changedFiles, printed, readOk,
                   readFailed, written>>

\* for fname in filenames: not a ".rs" name, continue.
SkipFile(f) ==
    /\ wpc = "files"
    /\ f \in filenames
    /\ ~EndsWithRs(FileName(f))
    /\ filenames' = filenames \ {f}
    /\ UNCHANGED <<tvars, fsvars, stack, dirpath, fpath, changedFiles, printed,
                   readOk, readFailed, written, wpc>>

\* A read failure that is not caught: the exception leaves process_repo.
ReadFailFatal(f) ==
    /\ wpc = "files"
    /\ f \in filenames
    /\ EndsWithRs(FileName(f))
    /\ readFailed' = readFailed \cup {f}
    /\ wpc' = "raised"
    /\ UNCHANGED <<tvars, fsvars, stack, dirpath, filenames, fpath, changedFiles,
                   printed, readOk, written>>

\* read_text raises: report when verbose, continue with the next file.
ReadFail(f) ==
    /\ wpc = "files"
    /\ f \in filenames
    /\ EndsWithRs(FileName(f))
    /\ filenames' = filenames \ {f}
    /\ readFailed' = readFailed \cup {f}
    /\ printed' = IF verbose THEN Append(printed, <<"skip", f>>) ELSE printed
    /\ UNCHANGED <<tvars, fsvars, stack, dirpath, fpath, changedFiles, readOk,
                   written, wpc>>

\* read_text returns src; transform_content(src) is entered.
ReadOk(f) ==
    /\ wpc = "files"
    /\ f \in filenames
    /\ EndsWithRs(FileName(f))
    /\ filenames' = filenames \ {f}
    /\ readOk' = readOk \cup {f}
    /\ fpath' = f
    /\ text' = ReadText(f)
    /\ pc' = "split"
    /\ wpc' = "transform"
    /\ UNCHANGED <<lines, out, i, j, changed, result, pass, prev, fsvars, stack,
                   dirpath, changedFiles, printed, readFailed, written>>

\* A write that does not look at dry_run.
AfterTransformIgnoresDryRun ==
    /\ wpc = "transform"
    /\ pc = "done"
    /\ changedFiles' = IF changed THEN changedFiles + 1 ELSE changedFiles
    /\ printed' = IF changed /\ (verbose \/ dryRun)
                  THEN Append(printed, <<"update", fpath>>)
                  ELSE printed
    /\ disk' = IF changed
               THEN [disk EXCEPT ![fpath] = WriteText(result)]
               ELSE disk
    /\ written' = IF changed THEN written \cup {fpath} ELSE written
    /\ pc' = "idle"
    /\ wpc' = "files"
    /\ UNCHANGED <<text, lines, out, i, j, changed, result, pass, prev,
                   dirName, disk0, dryRun, verbose, stack, dirpath, filenames,
                   fpath, readOk, readFailed>>

\* transform_content returned (new_src, changed): count, report, write.
AfterTransform ==
    /\ wpc = "transform"
    /\ pc = "done"
    /\ changedFiles' = IF changed THEN changedFiles + 1 ELSE changedFiles
    /\ printed' = IF changed /\ (verbose \/ dryRun)
                  THEN Append(printed, <<"update", fpath>>)
                  ELSE printed
    /\ disk' = IF changed /\ ~dryRun
               THEN [disk EXCEPT ![fpath] = WriteText(result)]
               ELSE disk
    /\ written' = IF changed /\ ~dryRun THEN written \cup {fpath} ELSE written
    /\ pc' = "idle"
    /\ wpc' = "files"
    /\ UNCHANGED <<text, lines, out, i, j, changed, result, pass, prev,
                   dirName, disk0, dryRun, verbose, stack, dirpath, filenames,
                   fpath, readOk, readFailed>>

\* The for loop over filenames is exhausted: back to os.walk.
DirDone ==
    /\ wpc = "files"
    /\ filenames = {}
    /\ wpc' = "walk"
    /\ UNCHANGED <<tvars, fsvars, stack, dirpath, filenames, fpath, changedFiles,
                   printed, readOk, readFailed, written>>

\* os.walk is exhausted: return changed_files.
Return ==
    /\ wpc = "walk"
    /\ stack = <<>>
    /\ wpc' = "returned"
    /\ UNCHANGED <<tvars, fsvars, stack, dirpath, filenames, fpath, changedFiles,
                   printed, readOk, readFailed, written>>

-----------------------------------------------------------------------------
(* Specifications.                                                         *)

\* transform_content alone: no walk is in progress.
NoWalk ==
    /\ dirName = [d \in Dirs |-> "repo"]
    /\ disk0 = [f \in Files |-> <<>>]
    /\ disk = disk0
    /\ dryRun = FALSE
    /\ verbose = FALSE
    /\ stack = <<>>
    /\ dirpath = "none"
    /\ filenames = {}
    /\ fpath = "none"
    /\ changedFiles = 0
    /\ printed = <<>>
    /\ readOk = {}
    /\ readFailed = {}
    /\ written = {}
    /\ wpc = "none"

Init ==
    /\ text \in Texts
    /\ lines = <<>>
    /\ out = <<>>
    /\ i = 0
    /\ j = 0
    /\ changed = FALSE
    /\ result = <<>>
    /\ pc = "split"
    /\ pass = 1
    /\ prev = <<>>
    /\ NoWalk

Next ==
    \/ Split
    \/ CopyLine
    \/ StartBlock
    \/ SweepLine
    \/ EndBlock
    \/ Finish
    \/ Reapply

Spec == Init /\ [][Next]_vars

\* process_repo(root, dry_run, verbose) on a chosen file system.
InitRepo ==
    /\ dirName \in { [d \in Dirs |-> IF d = Root THEN r ELSE sub[d]] :
                       r \in RootNames, sub \in SubNames }
    /\ disk0 \in Contents
    /\ disk = disk0
    /\ dryRun \in BOOLEAN
    /\ verbose \in BOOLEAN
    /\ stack = <<Root>>
    /\ dirpath = "none"
    /\ filenames = {}
    /\ fpath = "none"
    /\ changedFiles = 0
    /\ printed = <<>>
    /\ readOk = {}
    /\ readFailed = {}
    /\ written = {}
    /\ wpc = "walk"
    /\ text = <<>>
    /\ lines = <<>>
    /\ out = <<>>
    /\ i = 0
    /\ j = 0
    /\ changed = FALSE
    /\ result = <<>>
    /\ pc = "idle"
    /\ pass = 1
    /\ prev = <<>>

NextRepo ==
    \/ EnterDir
    \/ \E f \in Files : SkipFile(f)
    \/ \E f \in Files : ReadFail(f)
    \/ \E f \in Files : ReadOk(f)
    \/ Split
    \/ CopyLine
    \/ StartBlock
    \/ SweepLine
    \/ EndBlock
    \/ Finish
    \/ AfterTransform
    \/ DirDone
    \/ Return

SpecRepo == InitRepo /\ [][NextRepo]_vars

\* process_repo runs on one thread and every statement completes, so a step
\* that is possible is eventually taken.
FairSpecRepo == SpecRepo /\ WF_vars(NextRepo)

-----------------------------------------------------------------------------
(* Shapes of lines, stated on the characters and not through the matchers. *)

\* indent, "//", any run of whitespace, then the tag.
TriggerShape(line) ==
    \E n \in 0..Len(line) :
        /\ n + 2 + Len(TAG) <= Len(line)
        /\ line[n + 1] = "/" /\ line[n + 2] = "/"
        /\ \A k \in 1..n : IsSpace(line[k])
        /\ \E g \in 0..(Len(line) - n - 2 - Len(TAG)) :
            /\ \A k \in (n + 3)..(n + 2 + g) : IsSpace(line[k])
            /\ SubSeq(line, n + 3 + g, n + 2 + g + Len(TAG)) = TAG

\* indent, "//", at most one whitespace character, then the tag.
NarrowTriggerShape(line) ==
    \E n \in 0..Len(line), g \in {0, 1} :
        /\ n + 2 + g + Len(TAG) <= Len(line)
        /\ \A k \in 1..n : IsSpace(line[k])
        /\ line[n + 1] = "/" /\ line[n + 2] = "/"
        /\ \A k \in (n + 3)..(n + 2 + g) : IsSpace(line[k])
        /\ SubSeq(line, n + 3 + g, n + 2 + g + Len(TAG)) = TAG

\* indent, "//", then the end of the line or a character other than '/', '!'.
PlainShape(line) ==
    \E n \in 0..Len(line) :
        /\ n + 2 <= Len(line)
        /\ \A k \in 1..n : IsSpace(line[k])
        /\ line[n + 1] = "/" /\ line[n + 2] = "/"
        /\ (n + 3 <= Len(line) => line[n + 3] \notin {"/", "!"})

\* indent, then "///" or "//!".
DocShape(line) ==
    \E n \in 0..Len(line) :
        /\ n + 3 <= Len(line)
        /\ \A k \in 1..n : IsSpace(line[k])
        /\ line[n + 1] = "/" /\ line[n + 2] = "/"
        /\ line[n + 3] \in {"/", "!"}

\* A plain comment whose tag is written in lower case.
OtherCaseShape(line) ==
    \E n \in 0..Len(line) :
        /\ n + 2 + Len(TAG) <= Len(line)
        /\ line[n + 1] = "/" /\ line[n + 2] = "/"
        /\ \A k \in 1..n : IsSpace(line[k])
        /\ \E g \in 0..(Len(line) - n - 2 - Len(TAG)) :
            /\ \A k \in (n + 3)..(n + 2 + g) : IsSpace(line[k])
            /\ SubSeq(line, n + 3 + g, n + 2 + g + Len(TAG))
                 = <<"s", "a", "f", "e", "t", "y", ":">>

\* b is a with one '/' put immediately after a's leading "//".
SlashInserted(a, b) ==
    \E n \in 0..Len(a) :
        /\ n + 2 <= Len(a)
        /\ \A k \in 1..n : IsSpace(a[k])
        /\ a[n + 1] = "/" /\ a[n + 2] = "/"
        /\ Len(b) = Len(a) + 1
        /\ \A k \in 1..(n + 2) : b[k] = a[k]
        /\ b[n + 3] = "/"
        /\ \A k \in (n + 3)..Len(a) : b[k + 1] = a[k]

\* Line k (1-based) lies in a matched block: some trigger at or before it is
\* joined to it by plain comment lines only.
InBlock(k) ==
    \E t \in 1..k :
        /\ TriggerShape(lines[t])
        /\ \A m \in (t + 1)..k : PlainShape(lines[m])

\* A line terminator ends s.
EndsWithTerminator(s) == Len(s) > 0 /\ s[Len(s)] \in LineBoundary

-----------------------------------------------------------------------------
(* Claims about transform_content, checked under Spec.                     *)

\* C1: every converted line (a trigger line or a continuation swept into its
\* block) stands in the output, at its own position, as the input line with
\* exactly one '/' inserted right after the leading "//": indent and all the
\* other characters are kept, nothing else is added, removed or altered.
C1_ContentPreservation ==
    pc \in {"outer", "inner", "done"} =>
        \A k \in 1..Len(out) :
            (InBlock(k) \/ out[k] # lines[k]) => SlashInserted(lines[k], out[k])

C1_Witness ==
    /\ pc = "done"
    /\ \E k \in 1..Len(lines) :
        /\ k > 1
        /\ InBlock(k)
        /\ ~TriggerShape(lines[k])
        /\ SpaceRun(lines[k], 1) > 0
        /\ out[k] # lines[k]

\* C2: a line outside every matched block is identical in input and output
\* and keeps its position; a line already in doc form ("///" or "//!") is
\* never rewritten, even when it carries the tag.
C2_NonInterference ==
    /\ pc \in {"outer", "inner", "done"} =>
        /\ Len(out) <= Len(lines)
        /\ \A k \in 1..Len(out) :
            /\ ~InBlock(k) => out[k] = lines[k]
            /\ DocShape(lines[k]) => out[k] = lines[k]
    /\ pc = "done" => Len(out) = Len(lines)

C2_Witness ==
    /\ pc = "done"
    /\ changed
    /\ \E k \in 1..Len(lines) :
        /\ k > 1
        /\ InBlock(k - 1)
        /\ DocShape(lines[k])
        /\ TagAt(lines[k], 5)
        /\ out[k] = lines[k]

\* C3: whatever line terminators the input uses, a result with changed =
\* false returns the input text unaltered.
C3_UnchangedIsIdentical ==
    (pc = "done" /\ ~changed) => result = text

\* C4: transform_content applied to its own output returns that output.
C4_Idempotent ==
    (pc = "done" /\ pass = 2) => result = prev

C4_Witness ==
    /\ pc = "done"
    /\ pass = 2
    /\ \E k \in 1..Len(lines) : lines[k] = <<"/", "/", "/", " ", " ">> \o TAG
    /\ \E k \in 1..Len(lines) : lines[k] = <<" ", " ", "/", "/", "/", " ", "s", "a", "f", "e", "t", "y", ":">>
    /\ result = text

\* C5: the output ends with exactly one line terminator when the input ends
\* with a line terminator, and with none when the input does not.
C5_TrailingTerminator ==
    pc = "done" =>
        IF EndsWithTerminator(text)
        THEN result = JoinLines(out) \o <<"\n">>
        ELSE result = JoinLines(out) /\ ~EndsWithTerminator(result)

\* C9: after a trigger every directly following plain "//" line is converted,
\* tagged or not; the run stops at the first line that is blank, no comment
\* or a doc comment; that line is neither dropped nor duplicated and is the
\* next cursor position; a later plain line is converted only inside a run
\* that a new trigger starts.
C9_BlockBoundary ==
    /\ pc \in {"outer", "done"} => Len(out) = i
    /\ pc = "inner" =>
        /\ Len(out) = j
        /\ i < j
        /\ TriggerShape(lines[i + 1])
        /\ \A k \in (i + 2)..j : PlainShape(lines[k])
    /\ pc \in {"outer", "inner", "done"} =>
        \A k \in 1..Len(out) : (out[k] # lines[k]) <=> InBlock(k)
    /\ (pc = "outer" /\ changed /\ i > 0 /\ i < Len(lines) /\ out[i] # lines[i]) =>
        ~PlainShape(lines[i + 1])

C9_Witness ==
    /\ pc = "done"
    /\ Len(lines) = 3
    /\ TriggerShape(lines[1])
    /\ out[1] # lines[1]
    /\ lines[2] = <<>>
    /\ out[2] = <<>>
    /\ PlainShape(lines[3])
    /\ ~TriggerShape(lines[3])
    /\ out[3] = lines[3]

-----------------------------------------------------------------------------
(* Claims about process_repo, checked under SpecRepo and FairSpecRepo.     *)

\* The files whose name ends in ".rs".
RsFiles == {"f0", "f1", "f3", "f4"}

\* The directory that lists d.
ParentOf(d) ==
    CHOOSE p \in Dirs : \E k \in 1..Len(Children(p)) : Children(p)[k] = d

\* The directories from d up to the root, the root left out.
RECURSIVE PathBelowRoot(_)
PathBelowRoot(d) ==
    IF d = Root THEN {} ELSE {d} \cup PathBelowRoot(ParentOf(d))

\* Some directory between the root (excluded) and d (included) has a name of
\* the skip set.
DirBelowSkipped(d) == \E a \in PathBelowRoot(d) : dirName[a] \in SkipNames

FileBelowSkipped(f) == DirBelowSkipped(DirOf(f))

\* Some directory above f, the root included, has a name of the skip set.
FileUnderSkipNamed(f) ==
    dirName[Root] \in SkipNames \/ FileBelowSkipped(f)

\* The stored text of f, as read, holds a trigger line.
HasTrigger(f) ==
    LET ls == SplitLines(UniversalNewlines(disk0[f]))
    IN  \E k \in 1..Len(ls) : TriggerShape(ls[k])

\* The files the walk has to take: ".rs" files outside every pruned directory.
Candidates == { f \in RsFiles : ~FileBelowSkipped(f) }

Printed(entry) == \E k \in 1..Len(printed) : printed[k] = entry

\* C6: a file is overwritten iff it is a visited ".rs" file that was read,
\* that the transformer changed, and dry_run is off; with dry_run on nothing
\* is written at any point; no other file is ever written.
C6_WritesOnlyChangedSources ==
    /\ \A f \in written :
        f \in RsFiles /\ f \in readOk /\ HasTrigger(f) /\ ~dryRun
    /\ \A f \in Files : f \notin written => disk[f] = disk0[f]
    /\ dryRun => (written = {} /\ disk = disk0)
    /\ \A f \in readOk :
        (HasTrigger(f) /\ ~dryRun /\ ~(fpath = f /\ wpc = "transform"))
            => (f \in written /\ disk[f] # disk0[f])

C6_Witness ==
    /\ wpc = "returned"
    /\ "f1" \in written
    /\ "f0" \in readOk
    /\ "f0" \notin written
    /\ "f2" \notin written
    /\ HasTrigger("f2")

\* C7 as stated: no file under a directory whose name is in the skip set is
\* ever read, transformed, counted or written.
C7_NothingUnderSkipNamedDir ==
    /\ \A f \in Files :
        FileUnderSkipNamed(f) =>
            /\ f \notin readOk \cup readFailed \cup written
            /\ fpath # f
            /\ disk[f] = disk0[f]
    /\ changedFiles <= Cardinality({ f \in RsFiles :
                            ~FileUnderSkipNamed(f) /\ HasTrigger(f) })

\* C7 amended: no file under a directory that lies below the walk's root and
\* has a name of the skip set is ever read, transformed, counted or written,
\* and no such directory is ever listed; the root itself is walked whatever
\* its name is.
C7_NothingBelowPrunedDir ==
    /\ \A f \in Files :
        FileBelowSkipped(f) =>
            /\ f \notin readOk \cup readFailed \cup written
            /\ fpath # f
            /\ f \notin filenames
            /\ disk[f] = disk0[f]
    /\ \A d \in Dirs :
        DirBelowSkipped(d) =>
            /\ dirpath # d
            /\ \A k \in 1..Len(stack) : stack[k] # d
    /\ changedFiles <= Cardinality({ f \in Candidates : HasTrigger(f) })
    /\ wpc \in {"files", "transform"} => dirpath # "none"

C7_Witness ==
    /\ wpc = "returned"
    /\ dirName["d1"] = "src"
    /\ dirName["d3"] = "node_modules"
    /\ dirName["d2"] = "target"
    /\ "f1" \in written
    /\ "f3" \notin readOk \cup readFailed
    /\ "f4" \notin readOk \cup readFailed
    /\ HasTrigger("f3")

\* The state part of C8.
C8_Safety ==
    /\ \A f \in readFailed :
        /\ f \notin readOk
        /\ f \notin written
        /\ disk[f] = disk0[f]
        /\ ~Printed(<<"update", f>>)
    /\ \A f \in Files : Printed(<<"skip", f>>) <=> (verbose /\ f \in readFailed)
    /\ wpc = "returned" =>
        /\ readOk \cup readFailed = Candidates
        /\ changedFiles = Cardinality({ f \in readOk : HasTrigger(f) })
        /\ \A f \in readOk : f \in written <=> (HasTrigger(f) /\ ~dryRun)

\* C8: a read failure is never fatal: the failing file is neither counted
\* nor written, every other candidate file is still processed as it would
\* have been, the walk ends and returns the count of changed files, and the
\* failure is printed only when verbose is on.
C8_ReadFailureNotFatal == [](C8_Safety) /\ <>(wpc = "returned")

C8_Witness ==
    /\ wpc = "returned"
    /\ "f0" \in readFailed
    /\ "f1" \in written
    /\ verbose
    /\ Printed(<<"skip", "f0">>)
    /\ changedFiles > 0

====
